---- MODULE Spec2Model ----
(***************************************************************************)
(* Model of the PayPal vault gateway: the last revision in src/server.js,   *)
(* lines 393-623 (the file also holds two earlier revisions, lines 1-391);  *)
(* src/public/index.html holds the same program as that last revision.     *)
(*                                                                         *)
(* Node runs one handler at a time: a handler runs from one `await` to the *)
(* next without interleaving, so each action below is one such stretch of  *)
(* a handler: the arrival of a request up to its first outbound call, or   *)
(* the processor's reply to an outbound call up to the next outbound call  *)
(* or the response.  Requests interleave at the awaits.  The processor is  *)
(* a black box: each reply is a nondeterministic choice among outcomes.    *)
(***************************************************************************)
EXTENDS Integers, Sequences, FiniteSets, TLC

\* ------------------------------------------------------------------ bounds
MaxReq   == 2      \* inbound requests in one run
MaxClock == 1      \* Date.now() readings 0..MaxClock

\* ------------------------------------------------------------------ values
Undefined == "undefined"                 \* a field the caller did not send
ReqIds    == 1..MaxReq
Headers   == {Undefined, "k1"}           \* x-idempotency-key / paypal-request-id
VaultIds  == {Undefined, "", "V1"}
CustIds   == {Undefined, "C1"}
Amounts   == {Undefined, "1.5"}           \* undefined: the default '100'
Currencies == {Undefined, "USD"}           \* undefined: the default 'JPY'
ShippingModes == {Undefined, "none", "no_shipping", "set_provided"}
CaptureIssues == {"ORDER_ALREADY_CAPTURED", "INSTRUMENT_DECLINED"}
OrderStatuses == {"CREATED"}             \* createResp.data.status

\* JavaScript truthiness of a string-or-undefined value: `if (v)`, `!v`.
Truthy(v) == v # Undefined /\ v # ""

\* String(amount) as its characters.
StringOf(amount) ==
  CASE amount = "100" -> <<"1", "0", "0">>
    [] amount = "1.5" -> <<"1", ".", "5">>
    [] OTHER          -> <<>>

\* String.prototype.includes for a one-character needle.
includes(chars, c) == \E i \in DOMAIN chars : chars[i] = c

VARIABLES
  env,        \* PAYPAL_CLIENT_ID / PAYPAL_CLIENT_SECRET set or not
  now,        \* the reading of Date.now()
  reqs,       \* the inbound requests: input, position in the handler, locals
  resp,       \* per request, the HTTP responses sent (res.json calls)
  calls,      \* per request, the outbound calls it sent to the processor, in order
  nextOrder   \* the processor's next order id

vars == <<env, now, reqs, resp, calls, nextOrder>>

NoBody == [vaultId |-> Undefined, customerId |-> Undefined, amount |-> Undefined,
           currency |-> Undefined, shippingMode |-> Undefined]

\* A request slot before its request arrives.  token, orderId: the handler's
\* accessToken and orderId (0 = not yet assigned); after: the requests that had
\* been answered when this one arrived.
Idle == [kind |-> "none", pc |-> "idle", hdr |-> Undefined, body |-> NoBody,
         param |-> Undefined, token |-> <<0, 0>>, orderId |-> 0,
         orderStatus |-> Undefined, after |-> {}]

\* What a caller can send to each route.
OneClickInputs ==
  [hdr : Headers, param : {Undefined}, orderId : {0},
   body : [vaultId : {Undefined, "V1"}, customerId : {Undefined}, amount : Amounts,
           currency : Currencies, shippingMode : {Undefined}]]
OrdersInputs ==
  [hdr : {Undefined}, param : {Undefined}, orderId : {0},
   body : [vaultId : VaultIds, customerId : CustIds, amount : {Undefined},
           currency : {Undefined}, shippingMode : ShippingModes]]
CaptureInputs      == [hdr : {Undefined}, param : {Undefined}, orderId : {1}, body : {NoBody}]
PaymentTokenInputs == [hdr : {Undefined}, param : {"C1"}, orderId : {0}, body : {NoBody}]
ClientTokenInputs  == [hdr : {Undefined}, param : {Undefined, "C1"}, orderId : {0}, body : {NoBody}]

Done(r)    == reqs[r].pc = "done"
Arrived(r) == reqs[r].pc # "idle"
CallsOf(r, api) == {i \in DOMAIN calls[r] : calls[r][i].api = api}

\* ------------------------------------------------------- request ids (keys)
\* A PayPal-Request-Id is a text followed by a number (`ORDER-${Date.now()}`);
\* stamp -1 stands for a text sent verbatim, with no number appended.
NoRequestId == <<Undefined, -1>>
Stamped(prefix, t) == <<prefix, t>>

\* ---------------------------------------------------------- credentials
\* requireEnv() testing the client id alone, as /api/config does.
requireEnvClientIdOnly == ~env.clientId

\* requireEnv() throws exactly when this holds.
requireEnvThrows == ~env.clientId \/ ~env.clientSecret
EnvMessage == "PAYPAL_CLIENT_ID / PAYPAL_CLIENT_SECRET unset"

\* The body of the token request of getPayPalAccessToken.
AccessGrant == [grant_type |-> "client_credentials"]

\* postData of generateUserIdToken(customerId).
IdTokenGrantTarget(customerId) ==
  [grant_type |-> "client_credentials", response_type |-> "id_token"]
    @@ [target_customer_id |-> customerId]
IdTokenGrant(customerId) ==
  IF Truthy(customerId)
    THEN IdTokenGrantTarget(customerId)
    ELSE [grant_type |-> "client_credentials", response_type |-> "id_token"]

\* ------------------------------------------------------------- payloads
VaultAttributes ==
  [store_in_vault |-> "ON_SUCCESS", usage_type |-> "MERCHANT", customer_type |-> "CONSUMER"]

ExperienceContext ==
  [payment_method_preference |-> "IMMEDIATE_PAYMENT_REQUIRED",
   brand_name |-> "PayPal Vault Demo", locale |-> "ja-JP", landing_page |-> "LOGIN",
   shipping_preference |-> "NO_SHIPPING", user_action |-> "PAY_NOW"]

TokenSource(vaultId) == [token |-> [id |-> vaultId, type |-> "PAYMENT_METHOD_TOKEN"]]

\* orderPayload with the shipping mode honoured: an address for no_shipping and
\* set_provided, and the fixed-address preference for set_provided.
orderPayloadWithShipping(body) ==
  LET addr == body.shippingMode \in {"no_shipping", "set_provided"}
      pref == IF body.shippingMode = "set_provided" THEN "SET_PROVIDED_ADDRESS"
                                                   ELSE "NO_SHIPPING"
      unit == [amount |-> [currency_code |-> "JPY", value |-> "100"],
               description |-> "vault test item"]
  IN [intent |-> "CAPTURE",
      purchase_unit |-> IF addr THEN unit @@ [shipping |-> [address |-> "JP"]] ELSE unit,
      payment_source |->
        IF Truthy(body.vaultId)
          THEN TokenSource(body.vaultId)
          ELSE [paypal |->
                  [experience_context |->
                     [ExperienceContext EXCEPT !.shipping_preference = pref],
                   attributes |->
                     [vault |-> IF Truthy(body.customerId)
                                  THEN VaultAttributes @@ [customer_id |-> body.customerId]
                                  ELSE VaultAttributes]]]]

\* orderPayload attaching the customer whenever one is sent, also beside a
\* stored instrument.
orderPayloadCustomerAlways(body) ==
  LET vault == IF Truthy(body.customerId)
                 THEN VaultAttributes @@ [customer_id |-> body.customerId]
                 ELSE VaultAttributes
      unit == [amount |-> [currency_code |-> "JPY", value |-> "100"],
               description |-> "vault test item"]
  IN [intent |-> "CAPTURE",
      purchase_unit |-> unit,
      payment_source |->
        IF Truthy(body.vaultId)
          THEN IF Truthy(body.customerId)
                 THEN TokenSource(body.vaultId) @@ [attributes |-> [vault |-> vault]]
                 ELSE TokenSource(body.vaultId)
          ELSE [paypal |-> [experience_context |-> ExperienceContext,
                            attributes |-> [vault |-> vault]]]]

\* orderPayload of POST /api/orders.
orderPayload(body) ==
  IF Truthy(body.vaultId)
    THEN [intent |-> "CAPTURE",
          purchase_unit |-> [amount |-> [currency_code |-> "JPY", value |-> "100"],
                             description |-> "vault test item (saved)"],
          payment_source |-> TokenSource(body.vaultId)]
    ELSE [intent |-> "CAPTURE",
          purchase_unit |-> [amount |-> [currency_code |-> "JPY", value |-> "100"],
                             description |-> "vault test item"],
          payment_source |->
            [paypal |->
               [experience_context |-> ExperienceContext,
                attributes |->
                  [vault |-> IF Truthy(body.customerId)
                               THEN VaultAttributes @@ [customer_id |-> body.customerId]
                               ELSE VaultAttributes]]]]

\* The destructuring defaults of POST /api/orders/oneclick.
Default(v, d) == IF v = Undefined THEN d ELSE v
OneClickAmount(body)   == Default(body.amount, "100")
OneClickCurrency(body) == Default(body.currency, "JPY")

\* orderPayload of POST /api/orders/oneclick.
oneClickPayload(body) ==
  [intent |-> "CAPTURE",
   purchase_unit |-> [amount |-> [currency_code |-> OneClickCurrency(body),
                                  value |-> OneClickAmount(body)],
                      description |-> "Vault One-click charge"],
   payment_source |-> TokenSource(body.vaultId)]

\* The two input checks of one-click: "" when the input passes, else the error.
OneClickValidation(body) ==
  IF ~Truthy(body.vaultId) THEN "vaultId required"
  ELSE IF OneClickCurrency(body) = "JPY" /\ includes(StringOf(OneClickAmount(body)), ".")
    THEN "JPY does not support decimals"
  ELSE ""

\* ------------------------------------------------------------ responses
\* The `error` text of each route's catch block (the source's texts are
\* Japanese but for one-click's; each stands for its route's literal).
ErrorText(kind) ==
  CASE kind = "oneclick"      -> "oneclick failed"
    [] kind = "orders"        -> "order creation failed"
    [] kind = "capture"       -> "capture failed"
    [] kind = "paymentTokens" -> "payment tokens failed"
    [] kind = "clientToken"   -> "client token failed"

\* res.status(status).json(body)
Send(r, status, body) == Append(resp[r], [status |-> status, body |-> body])

\* A catch block that forgets res.status(500).
CatchWithoutStatus(r, kind, details) ==
  Send(r, 200, [error |-> ErrorText(kind), details |-> details])

\* The handler's catch block: status 500, the route's error text, and
\* err.response?.data || err.message as details.
Catch(r, kind, details) == Send(r, 500, [error |-> ErrorText(kind), details |-> details])

\* ------------------------------------------------------- outbound calls
\* auth: the token of the Authorization header (Basic for a token exchange);
\* order: the order id of the URL; reply: the processor's answer.
Call(api, key, auth, order, data) ==
  [api |-> api, key |-> key, auth |-> auth, order |-> order, data |-> data,
   reply |-> "pending"]
Basic == <<0, 0>>

\* The processor's reply to the call request r waits on: the last one it sent.
Replied(r, reply) == [calls[r] EXCEPT ![Len(calls[r])].reply = reply]

\* The token of an exchange: the processor issues a new one for each.
\* A token kept in the module from the first exchange and handed to every request.
IssuedTokenShared(r) == <<1, 1>>

IssuedToken(r) == <<r, Len(calls[r])>>

\* axios(...) from request r: the call is sent, after the reply to the last.
Sent(r, reply, call) == [calls EXCEPT ![r] = Append(Replied(r, reply), call)]
Answered(r, reply)   == [calls EXCEPT ![r] = Replied(r, reply)]

Init ==
  /\ env \in [clientId : BOOLEAN, clientSecret : BOOLEAN]
  /\ now = 0
  /\ reqs = [r \in ReqIds |-> Idle]
  /\ resp = [r \in ReqIds |-> <<>>]
  /\ calls = [r \in ReqIds |-> <<>>]
  /\ nextOrder = 1


\* ------------------------------------------------------------- arrival
Begin(r, kind, in) ==
  [Idle EXCEPT !.kind = kind, !.pc = "awaitToken", !.hdr = in.hdr, !.body = in.body,
               !.param = in.param, !.orderId = in.orderId,
               !.after = {s \in ReqIds : Done(s)}]

\* A handler from its entry to the token request of getPayPalAccessToken /
\* generateUserIdToken: requireEnv() throws into the handler's catch, else the
\* token request is sent and the handler suspends.
Start(r, kind, in, grant) ==
  /\ reqs[r].pc = "idle"
  /\ \A s \in ReqIds : s < r => Arrived(s)
  /\ IF requireEnvThrows
       THEN /\ reqs' = [reqs EXCEPT ![r] = [Begin(r, kind, in) EXCEPT !.pc = "done"]]
            /\ resp' = [resp EXCEPT ![r] = Catch(r, kind, EnvMessage)]
            /\ UNCHANGED calls
       ELSE /\ reqs' = [reqs EXCEPT ![r] = Begin(r, kind, in)]
            /\ calls' = [calls EXCEPT ![r] = <<Call("token", NoRequestId, Basic, 0, grant)>>]
            /\ UNCHANGED resp
  /\ UNCHANGED <<env, now, nextOrder>>

OneClickStart(r)      == \E in \in OneClickInputs : Start(r, "oneclick", in, AccessGrant)
OrdersStart(r)        == \E in \in OrdersInputs : Start(r, "orders", in, AccessGrant)
CaptureStart(r)       == \E in \in CaptureInputs : Start(r, "capture", in, AccessGrant)
PaymentTokensStart(r) == \E in \in PaymentTokenInputs : Start(r, "paymentTokens", in, AccessGrant)
ClientTokenStart(r)   ==
  \E in \in ClientTokenInputs : Start(r, "clientToken", in, IdTokenGrant(in.param))

\* ------------------------------------------------------- failed replies
\* The processor rejects the call the handler waits on: axios throws, and the
\* handler's catch answers 500 with the processor's error body.
Rejected(r, api, errors) ==
  /\ reqs[r].pc = api
  /\ \E e \in errors :
       /\ calls' = Answered(r, e)
       /\ resp' = [resp EXCEPT ![r] = Catch(r, reqs[r].kind, e)]
  /\ reqs' = [reqs EXCEPT ![r].pc = "done"]
  /\ UNCHANGED <<env, now, nextOrder>>

TokenRejected(r)  == Rejected(r, "awaitToken", {"invalid_client"})
CreateRejected(r) == reqs[r].kind = "orders" /\ Rejected(r, "awaitCreate", {"UNPROCESSABLE_ENTITY"})
CaptureRejected(r) == reqs[r].kind = "capture" /\ Rejected(r, "awaitCapture", CaptureIssues)
ListRejected(r)   == Rejected(r, "awaitList", {"NOT_AUTHORIZED"})

\* ------------------------------------------------------------ one-click
\* The caller's idempotency header forwarded as the creation key when present.
OneClickCreateKeyFromHeader(r) ==
  IF reqs[r].hdr # Undefined THEN <<reqs[r].hdr, -1>> ELSE Stamped("ONECLICK-ORDER-", now)

\* PayPal-Request-Id of the one-click order creation.
OneClickCreateKey(r) == Stamped("ONECLICK-ORDER-", now)

\* One-click answering a seen identifier from the earlier successful response.
OneClickAfterTokenCached(r) ==
  /\ reqs[r].kind = "oneclick" /\ reqs[r].pc = "awaitToken"
  /\ LET q == reqs[r]
         t == IssuedToken(r)
         v == OneClickValidation(q.body)
         hits == {s \in q.after : /\ reqs[s].kind = "oneclick"
                                  /\ q.hdr # Undefined /\ reqs[s].hdr = q.hdr
                                  /\ resp[s] # <<>> /\ resp[s][1].status = 200}
     IN IF v # ""
          THEN /\ reqs' = [reqs EXCEPT ![r].pc = "done", ![r].token = t]
               /\ resp' = [resp EXCEPT ![r] = Send(r, 400, [error |-> v])]
               /\ calls' = Answered(r, "ok")
          ELSE IF hits # {}
            THEN /\ reqs' = [reqs EXCEPT ![r].pc = "done", ![r].token = t]
                 /\ resp' = [resp EXCEPT ![r] = <<resp[CHOOSE s \in hits : TRUE][1]>>]
                 /\ calls' = Answered(r, "ok")
            ELSE /\ reqs' = [reqs EXCEPT ![r].pc = "awaitCreate", ![r].token = t]
                 /\ calls' = Sent(r, "ok",
                                  Call("create", Stamped("ONECLICK-ORDER-", now), t, 0,
                                       oneClickPayload(q.body)))
                 /\ UNCHANGED resp
  /\ UNCHANGED <<env, now, nextOrder>>

\* One-click holding a lock per identifier: a call whose identifier is held by
\* a call in flight is turned away before the order creation.
OneClickAfterTokenLocked(r) ==
  /\ reqs[r].kind = "oneclick" /\ reqs[r].pc = "awaitToken"
  /\ LET q == reqs[r]
         t == IssuedToken(r)
         v == OneClickValidation(q.body)
         held == \E s \in ReqIds : /\ s # r /\ reqs[s].kind = "oneclick"
                                    /\ q.hdr # Undefined /\ reqs[s].hdr = q.hdr
                                    /\ reqs[s].pc \in {"awaitCreate", "awaitCapture"}
     IN IF v # ""
          THEN /\ reqs' = [reqs EXCEPT ![r].pc = "done", ![r].token = t]
               /\ resp' = [resp EXCEPT ![r] = Send(r, 400, [error |-> v])]
               /\ calls' = Answered(r, "ok")
          ELSE IF held
            THEN /\ reqs' = [reqs EXCEPT ![r].pc = "done", ![r].token = t]
                 /\ resp' = [resp EXCEPT ![r] = Send(r, 409, [error |-> "in progress"])]
                 /\ calls' = Answered(r, "ok")
            ELSE /\ reqs' = [reqs EXCEPT ![r].pc = "awaitCreate", ![r].token = t]
                 /\ calls' = Sent(r, "ok",
                                  Call("create", Stamped("ONECLICK-ORDER-", now), t, 0,
                                       oneClickPayload(q.body)))
                 /\ UNCHANGED resp
  /\ UNCHANGED <<env, now, nextOrder>>

\* One-click answering 400 without returning: the handler goes on to the order
\* creation after the validation error is sent.
OneClickAfterTokenNoReturn(r) ==
  /\ reqs[r].kind = "oneclick" /\ reqs[r].pc = "awaitToken"
  /\ LET q == reqs[r]
         t == IssuedToken(r)
         v == OneClickValidation(q.body)
     IN /\ reqs' = [reqs EXCEPT ![r].pc = "awaitCreate", ![r].token = t]
        /\ resp' = [resp EXCEPT ![r] = IF v # "" THEN Send(r, 400, [error |-> v])
                                                  ELSE resp[r]]
        /\ calls' = Sent(r, "ok",
                           Call("create", Stamped("ONECLICK-ORDER-", now), t, 0,
                                oneClickPayload(q.body)))
  /\ UNCHANGED <<env, now, nextOrder>>

\* The token arrives: the input checks, then the order creation is sent.
OneClickAfterToken(r) ==
  /\ reqs[r].kind = "oneclick" /\ reqs[r].pc = "awaitToken"
  /\ LET q == reqs[r]
         t == IssuedToken(r)
         v == OneClickValidation(q.body)
     IN IF v # ""
          THEN /\ reqs' = [reqs EXCEPT ![r].pc = "done", ![r].token = t]
               /\ resp' = [resp EXCEPT ![r] = Send(r, 400, [error |-> v])]
               /\ calls' = Answered(r, "ok")
          ELSE /\ reqs' = [reqs EXCEPT ![r].pc = "awaitCreate", ![r].token = t]
               /\ calls' = Sent(r, "ok",
                                  Call("create", OneClickCreateKey(r), t, 0,
                                       oneClickPayload(q.body)))
               /\ UNCHANGED resp
  /\ UNCHANGED <<env, now, nextOrder>>

\* One-click going on to the capture although the order creation failed.
OneClickCreateRejectedCaptures(r) ==
  /\ reqs[r].kind = "oneclick" /\ reqs[r].pc = "awaitCreate"
  /\ reqs' = [reqs EXCEPT ![r].pc = "awaitCapture"]
  /\ calls' = Sent(r, "UNPROCESSABLE_ENTITY",
                     Call("capture", Stamped("ONECLICK-CAPTURE-", now),
                          reqs[r].token, 0, [empty |-> TRUE]))
  /\ UNCHANGED <<env, now, resp, nextOrder>>

\* The order creation of a one-click request fails: the catch answers 500.
OneClickCreateRejected(r) ==
  reqs[r].kind = "oneclick" /\ Rejected(r, "awaitCreate", {"UNPROCESSABLE_ENTITY"})

\* The order is created: the capture is sent at once.
OneClickAfterCreate(r) ==
  /\ reqs[r].kind = "oneclick" /\ reqs[r].pc = "awaitCreate"
  /\ \E st \in OrderStatuses :
       /\ reqs' = [reqs EXCEPT ![r].pc = "awaitCapture", ![r].orderId = nextOrder,
                               ![r].orderStatus = st]
       /\ calls' = Sent(r, "ok",
                          Call("capture", Stamped("ONECLICK-CAPTURE-", now),
                               reqs[r].token, nextOrder, [empty |-> TRUE]))
  /\ nextOrder' = nextOrder + 1
  /\ UNCHANGED <<env, now, resp>>

\* One-click taking "order already captured" for success, with a null capture.
OneClickOnCaptureErrorRecovered(r, issue) ==
  IF issue = "ORDER_ALREADY_CAPTURED"
    THEN Send(r, 200, [orderId |-> reqs[r].orderId, orderStatus |-> reqs[r].orderStatus,
                       capture |-> [id |-> 0, status |-> "null"]])
    ELSE Catch(r, "oneclick", issue)

\* What one-click answers when the capture throws with the processor's issue.
OneClickOnCaptureError(r, issue) == Catch(r, "oneclick", issue)

\* One-click sending the capture a second time when the first one fails.
OneClickCaptureRejectedRetry(r) ==
  /\ reqs[r].kind = "oneclick" /\ reqs[r].pc = "awaitCapture"
  /\ \E issue \in CaptureIssues :
       IF Cardinality(CallsOf(r, "capture")) < 2
         THEN /\ calls' = Sent(r, issue,
                                Call("capture", Stamped("ONECLICK-CAPTURE-", now),
                                     reqs[r].token, reqs[r].orderId, [empty |-> TRUE]))
              /\ UNCHANGED <<reqs, resp>>
         ELSE /\ calls' = Answered(r, issue)
              /\ resp' = [resp EXCEPT ![r] = Catch(r, "oneclick", issue)]
              /\ reqs' = [reqs EXCEPT ![r].pc = "done"]
  /\ UNCHANGED <<env, now, nextOrder>>

OneClickCaptureRejected(r) ==
  /\ reqs[r].kind = "oneclick" /\ reqs[r].pc = "awaitCapture"
  /\ \E issue \in CaptureIssues :
       /\ calls' = Answered(r, issue)
       /\ resp' = [resp EXCEPT ![r] = OneClickOnCaptureError(r, issue)]
  /\ reqs' = [reqs EXCEPT ![r].pc = "done"]
  /\ UNCHANGED <<env, now, nextOrder>>

\* captureResp.data
CaptureData(orderId) == [id |-> orderId, status |-> "COMPLETED"]

OneClickAfterCapture(r) ==
  /\ reqs[r].kind = "oneclick" /\ reqs[r].pc = "awaitCapture"
  /\ calls' = Answered(r, "ok")
  /\ resp' = [resp EXCEPT ![r] =
                Send(r, 200, [orderId |-> reqs[r].orderId,
                              orderStatus |-> reqs[r].orderStatus,
                              capture |-> CaptureData(reqs[r].orderId)])]
  /\ reqs' = [reqs EXCEPT ![r].pc = "done"]
  /\ UNCHANGED <<env, now, nextOrder>>

\* ---------------------------------------------------- POST /api/orders
OrdersAfterToken(r) ==
  /\ reqs[r].kind = "orders" /\ reqs[r].pc = "awaitToken"
  /\ LET t == IssuedToken(r)
     IN /\ reqs' = [reqs EXCEPT ![r].pc = "awaitCreate", ![r].token = t]
        /\ calls' = Sent(r, "ok",
                           Call("create", Stamped("ORDER-", now), t, 0,
                                orderPayload(reqs[r].body)))
  /\ UNCHANGED <<env, now, resp, nextOrder>>

OrdersAfterCreate(r) ==
  /\ reqs[r].kind = "orders" /\ reqs[r].pc = "awaitCreate"
  /\ \E st \in OrderStatuses :
       /\ reqs' = [reqs EXCEPT ![r].pc = "done", ![r].orderId = nextOrder,
                               ![r].orderStatus = st]
       /\ resp' = [resp EXCEPT ![r] = Send(r, 200, [id |-> nextOrder, status |-> st])]
  /\ calls' = Answered(r, "ok")
  /\ nextOrder' = nextOrder + 1
  /\ UNCHANGED <<env, now>>

\* ------------------------------------ POST /api/orders/:orderId/capture
CaptureAfterToken(r) ==
  /\ reqs[r].kind = "capture" /\ reqs[r].pc = "awaitToken"
  /\ LET t == IssuedToken(r)
     IN /\ reqs' = [reqs EXCEPT ![r].pc = "awaitCapture", ![r].token = t]
        /\ calls' = Sent(r, "ok",
                           Call("capture", Stamped("CAPTURE-", now), t,
                                reqs[r].orderId, [empty |-> TRUE]))
  /\ UNCHANGED <<env, now, resp, nextOrder>>

CaptureAfterCapture(r) ==
  /\ reqs[r].kind = "capture" /\ reqs[r].pc = "awaitCapture"
  /\ calls' = Answered(r, "ok")
  /\ resp' = [resp EXCEPT ![r] = Send(r, 200, CaptureData(reqs[r].orderId))]
  /\ reqs' = [reqs EXCEPT ![r].pc = "done"]
  /\ UNCHANGED <<env, now, nextOrder>>

\* ---------------------------------- GET /api/payment-tokens/:customerId
PaymentTokensAfterToken(r) ==
  /\ reqs[r].kind = "paymentTokens" /\ reqs[r].pc = "awaitToken"
  /\ LET t == IssuedToken(r)
     IN /\ reqs' = [reqs EXCEPT ![r].pc = "awaitList", ![r].token = t]
        /\ calls' = Sent(r, "ok",
                           Call("list", NoRequestId, t, 0,
                                [customer_id |-> reqs[r].param]))
  /\ UNCHANGED <<env, now, resp, nextOrder>>

PaymentTokensAfterList(r) ==
  /\ reqs[r].kind = "paymentTokens" /\ reqs[r].pc = "awaitList"
  /\ calls' = Answered(r, "ok")
  /\ resp' = [resp EXCEPT ![r] = Send(r, 200, [payment_tokens |-> reqs[r].param])]
  /\ reqs' = [reqs EXCEPT ![r].pc = "done"]
  /\ UNCHANGED <<env, now, nextOrder>>

\* ------------------------------------- GET /api/generate-client-token
ClientTokenAfterToken(r) ==
  /\ reqs[r].kind = "clientToken" /\ reqs[r].pc = "awaitToken"
  /\ LET t == IssuedToken(r)
     IN /\ reqs' = [reqs EXCEPT ![r].pc = "done", ![r].token = t]
        /\ resp' = [resp EXCEPT ![r] = Send(r, 200, [id_token |-> t])]
  /\ calls' = Answered(r, "ok")
  /\ UNCHANGED <<env, now, nextOrder>>

\* ---------------------------------------------------------------- clock
Tick ==
  /\ now < MaxClock
  /\ now' = now + 1
  /\ UNCHANGED <<env, reqs, resp, calls, nextOrder>>

Next ==
  \/ Tick
  \/ \E r \in ReqIds :
       \/ OneClickStart(r)
       \/ OrdersStart(r)
       \/ CaptureStart(r)
       \/ PaymentTokensStart(r)
       \/ ClientTokenStart(r)
       \/ TokenRejected(r)
       \/ OneClickAfterToken(r)
       \/ OneClickCreateRejected(r)
       \/ OneClickAfterCreate(r)
       \/ OneClickCaptureRejected(r)
       \/ OneClickAfterCapture(r)
       \/ OrdersAfterToken(r)
       \/ CreateRejected(r)
       \/ OrdersAfterCreate(r)
       \/ CaptureAfterToken(r)
       \/ CaptureRejected(r)
       \/ CaptureAfterCapture(r)
       \/ PaymentTokensAfterToken(r)
       \/ ListRejected(r)
       \/ PaymentTokensAfterList(r)
       \/ ClientTokenAfterToken(r)

Spec == Init /\ [][Next]_vars


\* =================================================================== claims
OneClick(r)   == reqs[r].kind = "oneclick"
Orders(r)     == reqs[r].kind = "orders"
Answer(r)     == resp[r][1]
Succeeded(r)  == Done(r) /\ Len(resp[r]) = 1 /\ Answer(r).status = 200
FailedCalls(r) == {i \in DOMAIN calls[r] : calls[r][i].reply \notin {"pending", "ok"}}

\* r2 is a one-click call carrying the identifier of r1 and made after r1 was answered.
SameKeyLater(r1, r2) ==
  /\ OneClick(r1) /\ OneClick(r2)
  /\ reqs[r1].hdr # Undefined /\ reqs[r1].hdr = reqs[r2].hdr
  /\ r1 \in reqs[r2].after

\* Request r is served by its own outbound calls alone: its token exchange is
\* sent, its order creation is sent once token and input are good, and a success
\* response answers its own creation and capture.
Reattempts(r) ==
  /\ Len(calls[r]) >= 1 /\ calls[r][1].api = "token"
  /\ (calls[r][1].reply = "ok" /\ OneClickValidation(reqs[r].body) = "")
       => CallsOf(r, "create") # {}
  /\ Succeeded(r) =>
       \E i \in CallsOf(r, "create"), j \in CallsOf(r, "capture") :
         /\ calls[r][i].reply = "ok" /\ calls[r][j].reply = "ok"
         /\ Answer(r).body.orderId = calls[r][j].order

\* C1 (as claimed): a one-click call carrying an identifier whose earlier call
\* succeeded returns that call's response and sends no order creation and no
\* capture.
C1_ReplayAnsweredFromCache ==
  \A r1, r2 \in ReqIds :
    (SameKeyLater(r1, r2) /\ Succeeded(r1)) =>
      /\ CallsOf(r2, "create") = {} /\ CallsOf(r2, "capture") = {}
      /\ Done(r2) => resp[r2] = resp[r1]

\* C1 (amended): a one-click call carrying an identifier whose earlier call
\* succeeded is handled as a new charge: it is served by its own token exchange,
\* order creation and capture, and its success response carries the order of its
\* own capture.
C1_ReplayChargesAgain ==
  \A r1, r2 \in ReqIds :
    (SameKeyLater(r1, r2) /\ Succeeded(r1)) => Reattempts(r2)

C1_Witness ==
  \E r1, r2 \in ReqIds :
    /\ SameKeyLater(r1, r2) /\ Succeeded(r1) /\ Succeeded(r2)
    /\ Answer(r2).body.orderId # Answer(r1).body.orderId

\* C2 (as claimed): a one-click request with a missing vaultId, or with currency
\* JPY and a decimal point in the amount, is answered 400 with the validation
\* error and has sent no outbound call, whatever the credentials or the processor.
C2_ValidationBeforeAnyCall ==
  \A r \in ReqIds :
    (OneClick(r) /\ OneClickValidation(reqs[r].body) # "") =>
      /\ calls[r] = <<>>
      /\ resp[r] = <<[status |-> 400,
                      body |-> [error |-> OneClickValidation(reqs[r].body)]]>>

\* C3: a one-click call one of whose outbound calls (token exchange, order
\* creation, capture) failed is answered once, with status 500, the one-click
\* error and the processor's error as details, and so is one whose token fetch
\* threw before any call, with the configuration message; and a call made later
\* with the identifier of a failed call is served by its own outbound calls: it
\* re-attempts the charge.
C3_FailureSurfacesAndRetries ==
  \A r \in ReqIds :
    /\ (OneClick(r) /\ FailedCalls(r) # {}) =>
         /\ Done(r)
         /\ \E i \in FailedCalls(r) :
              resp[r] = <<[status |-> 500,
                           body |-> [error |-> "oneclick failed",
                                     details |-> calls[r][i].reply]]>>
         /\ \A r2 \in ReqIds : SameKeyLater(r, r2) => Reattempts(r2)
    /\ (OneClick(r) /\ calls[r] = <<>>) =>
         resp[r] = <<[status |-> 500,
                      body |-> [error |-> "oneclick failed", details |-> EnvMessage]]>>

C3_Witness ==
  \E r1, r2 \in ReqIds :
    /\ SameKeyLater(r1, r2) /\ Succeeded(r2)
    /\ \E i \in CallsOf(r1, "capture") : calls[r1][i].reply = "INSTRUMENT_DECLINED"

\* The one-click calls whose capture the processor refused as already captured.
AlreadyCaptured(r) ==
  /\ OneClick(r)
  /\ \E i \in CallsOf(r, "capture") : calls[r][i].reply = "ORDER_ALREADY_CAPTURED"

\* C4 (as claimed): when the capture fails with "order already captured" the call
\* is answered as a success carrying the orderId, and a retry with the same
\* identifier sends no capture.
C4_AlreadyCapturedIsSuccess ==
  \A r \in ReqIds :
    AlreadyCaptured(r) =>
      /\ Succeeded(r)
      /\ "orderId" \in DOMAIN Answer(r).body
      /\ Answer(r).body.orderId = reqs[r].orderId
      /\ \A r2 \in ReqIds : SameKeyLater(r, r2) => CallsOf(r2, "capture") = {}

\* C4 (amended): when the capture fails with "order already captured" the call
\* fails like any other capture failure: one response, status 500, the one-click
\* error with the issue as details and no orderId; no order lookup follows the
\* capture; and a retry with the same identifier is served by its own calls.
C4_AlreadyCapturedIsFailure ==
  \A r \in ReqIds :
    AlreadyCaptured(r) =>
      /\ Done(r)
      /\ resp[r] = <<[status |-> 500,
                      body |-> [error |-> "oneclick failed",
                                details |-> "ORDER_ALREADY_CAPTURED"]]>>
      /\ [i \in DOMAIN calls[r] |-> calls[r][i].api] = <<"token", "create", "capture">>
      /\ \A r2 \in ReqIds : SameKeyLater(r, r2) => Reattempts(r2)

C4_Witness ==
  \E r1, r2 \in ReqIds :
    /\ AlreadyCaptured(r1) /\ SameKeyLater(r1, r2)
    /\ CallsOf(r2, "capture") # {}

\* C7: with the client id or the client secret unset, every request that needs a
\* token (one-click, order creation, capture, payment-token listing, client-token
\* generation) is answered at once with status 500, its route's error and the
\* configuration message, and has sent no outbound call.
C7_UnsetCredentialsNoCall ==
  (~env.clientId \/ ~env.clientSecret) =>
    \A r \in ReqIds :
      Arrived(r) =>
        /\ calls[r] = <<>>
        /\ resp[r] = <<[status |-> 500,
                        body |-> [error |-> ErrorText(reqs[r].kind),
                                  details |-> EnvMessage]]>>

C7_Witness ==
  /\ env.clientId /\ ~env.clientSecret
  /\ \E r1, r2 \in ReqIds :
       /\ Done(r1) /\ Done(r2)
       /\ reqs[r1].kind = "clientToken" /\ OneClick(r2)

\* The payloads of the order creations sent by POST /api/orders.
HasAddress(p) ==
  \/ "shipping" \in DOMAIN p.purchase_unit
  \/ "address" \in DOMAIN p.purchase_unit
  \/ "paypal" \in DOMAIN p.payment_source /\ "address" \in DOMAIN p.payment_source.paypal
ShippingPreference(p) ==
  IF "paypal" \in DOMAIN p.payment_source
       /\ "experience_context" \in DOMAIN p.payment_source.paypal
    THEN p.payment_source.paypal.experience_context.shipping_preference
    ELSE Undefined

\* C8 (as claimed): shippingMode none gives no address and NO_SHIPPING,
\* no_shipping gives an address and NO_SHIPPING, set_provided gives an address
\* and SET_PROVIDED_ADDRESS.
C8_ShippingModeMapped ==
  \A r \in ReqIds : \A i \in CallsOf(r, "create") :
    Orders(r) =>
      LET p == calls[r][i].data
          m == reqs[r].body.shippingMode
      IN /\ m = "none" => ~HasAddress(p) /\ ShippingPreference(p) = "NO_SHIPPING"
         /\ m = "no_shipping" => HasAddress(p) /\ ShippingPreference(p) = "NO_SHIPPING"
         /\ m = "set_provided" =>
              HasAddress(p) /\ ShippingPreference(p) = "SET_PROVIDED_ADDRESS"

\* C8 (amended): order creation ignores shippingMode: for every shippingMode the
\* payload has no address field; the interactive payload (no vaultId) carries
\* preference NO_SHIPPING and the stored-instrument payload carries no shipping
\* preference.
C8_ShippingModeIgnored ==
  \A r \in ReqIds : \A i \in CallsOf(r, "create") :
    Orders(r) =>
      LET p == calls[r][i].data
      IN /\ ~HasAddress(p)
         /\ ShippingPreference(p) =
              IF Truthy(reqs[r].body.vaultId) THEN Undefined ELSE "NO_SHIPPING"

C8_Witness ==
  \E r \in ReqIds :
    /\ Orders(r) /\ CallsOf(r, "create") # {}
    /\ reqs[r].body.shippingMode = "set_provided" /\ ~Truthy(reqs[r].body.vaultId)

\* C9: with a vaultId the payment source of the order creation is the token
\* source for that vaultId and nothing else (no vault attributes, no
\* customerId); without one it is the interactive source with an experience
\* context and the vault attributes ON_SUCCESS / MERCHANT / CONSUMER, with
\* customer_id present exactly when a customerId was sent, and equal to it.
C9_PaymentSourceByInput ==
  \A r \in ReqIds : \A i \in CallsOf(r, "create") :
    Orders(r) =>
      LET src  == calls[r][i].data.payment_source
          body == reqs[r].body
      IN IF Truthy(body.vaultId)
           THEN src = [token |-> [id |-> body.vaultId, type |-> "PAYMENT_METHOD_TOKEN"]]
           ELSE /\ DOMAIN src = {"paypal"}
                /\ DOMAIN src.paypal = {"experience_context", "attributes"}
                /\ DOMAIN src.paypal.attributes = {"vault"}
                /\ LET vault == src.paypal.attributes.vault
                   IN /\ vault.store_in_vault = "ON_SUCCESS"
                      /\ vault.usage_type = "MERCHANT"
                      /\ vault.customer_type = "CONSUMER"
                      /\ "customer_id" \in DOMAIN vault <=> Truthy(body.customerId)
                      /\ Truthy(body.customerId) => vault.customer_id = body.customerId

C9_Witness ==
  \E r1, r2 \in ReqIds :
    /\ Orders(r1) /\ CallsOf(r1, "create") # {}
    /\ reqs[r1].body.vaultId = "V1" /\ reqs[r1].body.customerId = "C1"
    /\ Orders(r2) /\ CallsOf(r2, "create") # {}
    /\ ~Truthy(reqs[r2].body.vaultId) /\ reqs[r2].body.customerId = "C1"

\* C10 (as claimed): the order creation of a one-click call that carries an
\* idempotency header has exactly that header as its key, so two one-click calls
\* with the same header send the same key.
C10_CreateKeyIsCallerKey ==
  \A r \in ReqIds : \A i \in CallsOf(r, "create") :
    (OneClick(r) /\ reqs[r].hdr # Undefined) =>
      /\ calls[r][i].key = <<reqs[r].hdr, -1>>
      /\ \A r2 \in ReqIds : \A j \in CallsOf(r2, "create") :
           (OneClick(r2) /\ reqs[r2].hdr = reqs[r].hdr) => calls[r2][j].key = calls[r][i].key

\* C10 (amended): the order creation of a one-click call carries the key
\* ONECLICK-ORDER-<clock reading>, a reading taken while the request was handled,
\* whether or not the caller sent an idempotency header; the header is never the
\* key.
C10_CreateKeyIsServerStamp ==
  \A r \in ReqIds : \A i \in CallsOf(r, "create") :
    OneClick(r) =>
      /\ calls[r][i].key[1] = "ONECLICK-ORDER-"
      /\ calls[r][i].key[2] \in 0..now

C10_Witness ==
  \E r1, r2 \in ReqIds :
    /\ OneClick(r1) /\ OneClick(r2) /\ r1 # r2
    /\ reqs[r1].hdr = "k1" /\ reqs[r2].hdr = "k1"
    /\ \E i \in CallsOf(r1, "create"), j \in CallsOf(r2, "create") :
         calls[r1][i].key # calls[r2][j].key


\* C11 (as claimed): any two distinct order creations sent by POST /api/orders
\* carry different keys, and any two distinct captures carry different keys, also
\* when their requests are handled concurrently or at one clock reading.
C11_ServerKeysFresh ==
  \A r1, r2 \in ReqIds :
    /\ \A i \in CallsOf(r1, "create"), j \in CallsOf(r2, "create") :
         (Orders(r1) /\ Orders(r2) /\ <<r1, i>> # <<r2, j>>) =>
           calls[r1][i].key # calls[r2][j].key
    /\ \A i \in CallsOf(r1, "capture"), j \in CallsOf(r2, "capture") :
         <<r1, i>> # <<r2, j>> => calls[r1][i].key # calls[r2][j].key

\* Requests r1 and r2 were handled concurrently: neither was answered when the
\* other arrived.
Concurrent(r1, r2) ==
  /\ r1 # r2 /\ Arrived(r1) /\ Arrived(r2)
  /\ r1 \notin reqs[r2].after /\ r2 \notin reqs[r1].after

\* C12: nothing serialises two one-click calls that carry one identifier and are
\* handled concurrently: each is served by its own token exchange, order
\* creation and capture, whatever the other has done, so both can create and
\* capture an order (the witness: two captured orders for one identifier).
C12_ConcurrentCallsBothCharge ==
  \A r1, r2 \in ReqIds :
    ( /\ Concurrent(r1, r2) /\ OneClick(r1) /\ OneClick(r2)
      /\ reqs[r1].hdr # Undefined /\ reqs[r1].hdr = reqs[r2].hdr ) =>
      /\ Reattempts(r1) /\ Reattempts(r2)
      /\ (Succeeded(r1) /\ Succeeded(r2)) =>
           Answer(r1).body.orderId # Answer(r2).body.orderId

C12_Witness ==
  \E r1, r2 \in ReqIds :
    /\ Concurrent(r1, r2) /\ OneClick(r1) /\ OneClick(r2)
    /\ reqs[r1].hdr = "k1" /\ reqs[r2].hdr = "k1"
    /\ Succeeded(r1) /\ Succeeded(r2)
    /\ Answer(r1).body.orderId # Answer(r2).body.orderId
    /\ \E i \in CallsOf(r1, "capture"), j \in CallsOf(r2, "capture") :
         /\ calls[r1][i].reply = "ok" /\ calls[r2][j].reply = "ok"
         /\ calls[r1][i].order # calls[r2][j].order

\* C13: no outbound call is retried: a request sends at most one token exchange,
\* one order creation, one capture and one listing, and no other call (one-click
\* sends no order lookup); and a failed call is the last call of its request,
\* which is then answered with status 500.
C13_NoRetry ==
  \A r \in ReqIds :
    /\ \A api \in {"token", "create", "capture", "list"} :
         Cardinality(CallsOf(r, api)) <= 1
    /\ \A i \in DOMAIN calls[r] : calls[r][i].api \in {"token", "create", "capture", "list"}
    /\ \A i \in FailedCalls(r) :
         /\ i = Len(calls[r])
         /\ Done(r) /\ Len(resp[r]) = 1 /\ Answer(r).status = 500

C13_Witness ==
  \E r1, r2 \in ReqIds :
    /\ OneClick(r1) /\ Done(r1)
    /\ \E i \in CallsOf(r1, "capture") : calls[r1][i].reply = "INSTRUMENT_DECLINED"
    /\ Orders(r2) /\ Done(r2)
    /\ \E i \in CallsOf(r2, "create") : calls[r2][i].reply = "UNPROCESSABLE_ENTITY"


\* The kinds of outbound call request r has sent, in the order sent.
Apis(r) == [i \in DOMAIN calls[r] |-> calls[r][i].api]

\* C14: tokens are never kept or shared between requests: the first outbound
\* call of every request is its own token exchange, sent with the client
\* credentials; every later call of the request is sent after that exchange
\* succeeded and carries the token that exchange returned, which no other
\* request carries; and the exchange of a client-token request carries
\* target_customer_id exactly when a customer id was supplied, and equal to it.
C14_OwnTokenPerRequest ==
  \A r \in ReqIds :
    /\ calls[r] # <<>> =>
         /\ calls[r][1].api = "token" /\ calls[r][1].auth = <<0, 0>>
         /\ \A i \in 2..Len(calls[r]) :
              /\ calls[r][i].api # "token"
              /\ calls[r][1].reply = "ok"
              /\ calls[r][i].auth = <<r, 1>>
              /\ calls[r][i].auth = reqs[r].token
    /\ \A r2 \in ReqIds : \A i \in DOMAIN calls[r2] :
         r2 # r => calls[r2][i].auth # <<r, 1>>
    /\ \A i \in CallsOf(r, "token") :
         IF reqs[r].kind = "clientToken"
           THEN /\ "target_customer_id" \in DOMAIN calls[r][i].data
                     <=> reqs[r].param \notin {Undefined, ""}
                /\ reqs[r].param \notin {Undefined, ""} =>
                     calls[r][i].data.target_customer_id = reqs[r].param
                /\ calls[r][i].data.response_type = "id_token"
           ELSE calls[r][i].data = [grant_type |-> "client_credentials"]

C14_Witness ==
  \E r1, r2 \in ReqIds :
    /\ r1 # r2
    /\ Len(calls[r1]) >= 2 /\ calls[r1][2].auth = <<r1, 1>>
    /\ reqs[r2].kind = "clientToken" /\ reqs[r2].param = "C1"
    /\ Succeeded(r2) /\ Answer(r2).body.id_token = <<r2, 1>>

\* C15: the outbound calls of a one-click request are, in order, a token
\* exchange, an order creation and a capture; a capture is sent only after the
\* token exchange and the order creation of the same request succeeded, and for
\* the order that creation returned, an order no other creation returned; after
\* a failed token exchange or creation the request sends no capture.
C15_OneClickCallOrder ==
  \A r \in ReqIds :
    OneClick(r) =>
      /\ Apis(r) \in {<<>>, <<"token">>, <<"token", "create">>,
                      <<"token", "create", "capture">>}
      /\ \A j \in CallsOf(r, "capture") :
           /\ calls[r][1].reply = "ok" /\ calls[r][2].reply = "ok"
           /\ calls[r][j].order = reqs[r].orderId
           /\ calls[r][j].order \in 1..(nextOrder - 1)
           /\ \A r2 \in ReqIds :
                (r2 # r /\ CallsOf(r2, "create") # {}) =>
                  reqs[r2].orderId # calls[r][j].order
      /\ (\E i \in FailedCalls(r) : calls[r][i].api \in {"token", "create"}) =>
           CallsOf(r, "capture") = {}

C15_Witness ==
  \E r1, r2 \in ReqIds :
    /\ OneClick(r1) /\ OneClick(r2)
    /\ Apis(r1) = <<"token", "create", "capture">> /\ calls[r1][3].order = reqs[r1].orderId
    /\ Done(r2) /\ Apis(r2) = <<"token", "create">>
    /\ calls[r2][2].reply = "UNPROCESSABLE_ENTITY"

\* C16: a one-click request is answered exactly once: it has no response while
\* it waits on an outbound call and one response once that call has completed or
\* failed, never two. The response is 400 with the validation error when the
\* input checks ran and rejected the input, 200 with orderId, orderStatus and
\* capture when the creation and the capture succeeded, and 500 with an error
\* and details when the token fetch, the creation or the capture failed.
C16_OneClickAnsweredOnce ==
  \A r \in ReqIds :
    OneClick(r) =>
      /\ Len(resp[r]) <= 1
      /\ Done(r) <=> Len(resp[r]) = 1
      /\ ~Done(r) => (calls[r] # <<>> /\ calls[r][Len(calls[r])].reply = "pending")
      /\ Done(r) =>
           LET v == OneClickValidation(reqs[r].body)
               tokenOk == calls[r] # <<>> /\ calls[r][1].reply = "ok"
               failed == calls[r] = <<>> \/ FailedCalls(r) # {}
               captured == \E j \in CallsOf(r, "capture") : calls[r][j].reply = "ok"
           IN /\ Answer(r).status \in {200, 400, 500}
              /\ Answer(r).status = 400 <=> (tokenOk /\ v # "")
              /\ Answer(r).status = 400 => Answer(r).body = [error |-> v]
              /\ Answer(r).status = 200 <=> captured
              /\ Answer(r).status = 200 =>
                   /\ DOMAIN Answer(r).body = {"orderId", "orderStatus", "capture"}
                   /\ Answer(r).body.orderId = reqs[r].orderId
              /\ Answer(r).status = 500 <=> failed
              /\ Answer(r).status = 500 =>
                   /\ DOMAIN Answer(r).body = {"error", "details"}
                   /\ Answer(r).body.error = "oneclick failed"

C16_Witness ==
  \E r1, r2 \in ReqIds :
    /\ OneClick(r1) /\ OneClick(r2) /\ Done(r1) /\ Done(r2)
    /\ Len(resp[r1]) = 1 /\ Answer(r1).status = 400
    /\ Len(resp[r2]) = 1 /\ Answer(r2).status = 200

====
